---------------------------- MODULE Spec2Model ----------------------------
(***************************************************************************)
(* A model of the pythresh thresholders AUCP, DECOMP, FGD, HIST and MCST.  *)
(*                                                                         *)
(* Decision scores are integers; every quantity the code computes in       *)
(* floating point is carried as an exact fraction [n, d] (d > 0), and the  *)
(* IEEE value nan as the fraction with d = 0.  Comparisons with nan are    *)
(* false, as in numpy.                                                     *)
(***************************************************************************)
EXTENDS Integers, Sequences, FiniteSets, TLC

\* ------------------------------------------------------------ bounds ----
\* Longest score vector and largest raw score the caller passes.
MaxLen == 3
MaxVal == 2
\* Largest bin count given to HIST's constructor.
MaxBins == 4
\* Largest integer seed given to MCST's constructor.
MaxSeed == 1

\* ------------------------------------------------------- arithmetic ----
Abs(x) == IF x < 0 THEN -x ELSE x

Min2(a, b) == IF a <= b THEN a ELSE b

Max2(a, b) == IF a >= b THEN a ELSE b

Idx(s) == 1..Len(s)

RECURSIVE SumTo(_, _)
\* s[1] + ... + s[k]  (numpy.cumsum at position k)
SumTo(s, k) == IF k <= 0 THEN 0 ELSE s[k] + SumTo(s, k - 1)

Sum(s) == SumTo(s, Len(s))

\* s[k] + ... + s[Len(s)]  (cumsum of the reversed array, reversed back)
SumFrom(s, k) == Sum(s) - SumTo(s, k - 1)

SeqMin(s) == CHOOSE x \in {s[i] : i \in Idx(s)} : \A i \in Idx(s) : x <= s[i]

SeqMax(s) == CHOOSE x \in {s[i] : i \in Idx(s)} : \A i \in Idx(s) : x >= s[i]

\* A float as a fraction; d = 0 is nan.
Frac(a, b) == [n |-> a, d |-> b]

NaN == Frac(0, 0)

IsNaN(x) == x.d = 0

\* Float comparisons: false when either side is nan.
Gt(x, y) == ~IsNaN(x) /\ ~IsNaN(y) /\ x.n * y.d > y.n * x.d

Lt(x, y) == Gt(y, x)

Eq(x, y) == ~IsNaN(x) /\ ~IsNaN(y) /\ x.n * y.d = y.n * x.d

\* The last position holding the maximum.
ArgMax_last(v) ==
    IF \E i \in Idx(v) : IsNaN(v[i])
    THEN CHOOSE i \in Idx(v) : IsNaN(v[i]) /\ \A j \in 1..(i - 1) : ~IsNaN(v[j])
    ELSE CHOOSE i \in Idx(v) :
            /\ \A j \in Idx(v) : ~Gt(v[j], v[i])
            /\ \A j \in (i + 1)..Len(v) : Gt(v[i], v[j])

\* numpy.argmax over the 1-based sequence v of floats: the first nan if there
\* is one, else the first position holding the maximum.
ArgMax(v) ==
    IF \E i \in Idx(v) : IsNaN(v[i])
    THEN CHOOSE i \in Idx(v) : IsNaN(v[i]) /\ \A j \in 1..(i - 1) : ~IsNaN(v[j])
    ELSE CHOOSE i \in Idx(v) :
            /\ \A j \in Idx(v) : ~Gt(v[j], v[i])
            /\ \A j \in 1..(i - 1) : Gt(v[i], v[j])

\* ------------------------------------------------------------ inputs ----
\* What a caller may pass to eval: an array-like with a number of dimensions,
\* an element type and its elements.
Arr(nd, dt, xs) == [ndim |-> nd, dtype |-> dt, data |-> xs]

RECURSIVE SeqsUpTo(_, _)
SeqsUpTo(S, k) ==
    IF k = 0 THEN {<<>>}
    ELSE LET shorter == SeqsUpTo(S, k - 1)
         IN  shorter \cup {Append(s, x) : s \in {t \in shorter : Len(t) = k - 1}, x \in S}

\* The example of the specification, scores times 100.
OtsuExample == <<10, 20, 15, 90, 95, 12, 88>>

\* The score vectors of at most len integer scores in 0..val.
Vectors(len, val) == {Arr(1, "float", xs) : xs \in SeqsUpTo(0..val, len) \ {<<>>}}

ValidInputs == Vectors(MaxLen, MaxVal)

\* Empty, non-numeric and three-dimensional arguments.
InvalidInputs ==
    {Arr(1, "float", <<>>), Arr(1, "str", <<0, 1>>), Arr(3, "float", <<0, 1>>)}

Inputs == ValidInputs \cup InvalidInputs

\* sklearn.utils.check_array(decision, ensure_2d=False): TRUE when it returns,
\* FALSE when it raises ValueError.
check_array(decision) ==
    /\ decision.ndim < 3
    /\ decision.dtype = "float"
    /\ Len(decision.data) >= 1

\* thresh_utility.normalize: (v - min) / (max - min) elementwise; 0/0 = nan
\* for a constant vector.
normalize(v) ==
    LET lo == SeqMin(v)
        hi == SeqMax(v)
    IN  [i \in Idx(v) |-> IF hi = lo THEN NaN ELSE Frac(v[i] - lo, hi - lo)]

\* thresh_utility.cut: 1 where the score exceeds the limit, else 0.
cut(decision, limit) ==
    [i \in Idx(decision) |-> IF Gt(decision[i], limit) THEN 1 ELSE 0]


\* A sub-algorithm's outcome: the threshold it returns, or the exception it
\* raises ("none" when it returns).
Returns(t) == [exc |-> "none", thresh |-> t]

Raises(e) == [exc |-> e, thresh |-> NaN]

\* -------------------------------------------------------------- HIST ----
\* Bin (1-based) of a normalized score under numpy.histogram(range=(0,1)):
\* equal-width bins, the last one closed on the right; nan falls in no bin.
BinOf(x, nbins) ==
    IF IsNaN(x) THEN 0
    ELSE IF x.n = x.d THEN nbins
    ELSE (x.n * nbins) \div x.d + 1

\* histogram(decision, nbins): the counts per bin.  The bin centers are
\* bin_centers(nbins); numpy raises ValueError unless nbins is positive.
histogram(decision, nbins) ==
    [j \in 1..nbins |-> Cardinality({i \in Idx(decision) : BinOf(decision[i], nbins) = j})]

bin_centers_edges(nbins) == [j \in 1..nbins |-> Frac(j, nbins)]

bin_centers_left(nbins) == [j \in 1..nbins |-> Frac(j - 1, nbins)]

bin_centers(nbins) == [j \in 1..nbins |-> Frac(2 * j - 1, 2 * nbins)]

\* counts[j] * bin_centers[j] in units of 1 / (2 nbins)
Intensity(counts) == [j \in Idx(counts) |-> counts[j] * (2 * j - 1)]

Squares(counts) == [j \in Idx(counts) |-> counts[j] * counts[j]]

RECURSIVE MaximaScan(_, _, _, _)
\* The loop of find_local_maxima_idx from position i (1-based) on.
MaximaScan(hist, i, direction, maximum_idxs) ==
    IF i > Len(hist) - 1 THEN maximum_idxs
    ELSE IF direction > 0
         THEN IF hist[i + 1] < hist[i]
              THEN MaximaScan(hist, i + 1, -1, Append(maximum_idxs, i))
              ELSE MaximaScan(hist, i + 1, direction, maximum_idxs)
         ELSE IF hist[i + 1] > hist[i]
              THEN MaximaScan(hist, i + 1, 1, maximum_idxs)
              ELSE MaximaScan(hist, i + 1, direction, maximum_idxs)

find_local_maxima_idx(hist) == MaximaScan(hist, 1, 1, <<>>)

\* variance12 of OTSU_thres at position i of 1..nbins-1.
OtsuVariance(counts, i) ==
    LET nb == Len(counts)
        w1 == SumTo(counts, i)
        w2 == SumFrom(counts, i + 1)
        t1 == SumTo(Intensity(counts), i)
        t2 == SumFrom(Intensity(counts), i + 1)
    IN  IF w1 = 0 \/ w2 = 0 THEN NaN
        ELSE Frac((t1 * w2 - t2 * w1) * (t1 * w2 - t2 * w1), 4 * nb * nb * w1 * w2)

OTSU_thres(centers, counts) ==
    LET variance12 == [i \in 1..(Len(counts) - 1) |-> OtsuVariance(counts, i)]
    IN  IF Len(variance12) = 0 THEN Raises("ValueError")
        ELSE Returns(centers[ArgMax(variance12)])

\* The argument of the logarithm in YEN_thres at position i of 1..nbins-1
\* (the logarithm is increasing, so the argmax is the same).
YenCrit(counts, i) ==
    LET total == Sum(counts)
        p1    == SumTo(counts, i)
        p1sq  == SumTo(Squares(counts), i)
        p2sq  == SumFrom(Squares(counts), i + 1)
    IN  IF p1sq = 0 \/ p2sq = 0 THEN NaN
        ELSE Frac((p1 * (total - p1)) * (p1 * (total - p1)), p1sq * p2sq)

YEN_thres(centers, counts) ==
    LET crit == [i \in 1..(Len(counts) - 1) |-> YenCrit(counts, i)]
    IN  IF Len(crit) = 0 THEN Raises("ValueError")
        ELSE Returns(centers[ArgMax(crit)])

\* ---- IEEE double arithmetic, as far as ISODATA_thres uses it ----
\* A non-negative double is held exactly, as an integer count of units of
\* 2^-60 in four limbs of 20 bits, least significant first.  Every operation
\* computes the exact result and rounds it to 53 significant bits, to the
\* nearest and on a tie to the even neighbour.  The operands are at least
\* 2^-7 or zero and below 2^13, so no result needs a bit below the unit.
Limb == 1048576

BigInt(p) == <<0, 0, 0, p>>

\* The one element of a singleton set.  Binding a value as the element of a
\* singleton set has it evaluated once, before the expression that uses it.
The(S) == CHOOSE r \in S : TRUE

RECURSIVE Carry(_, _, _)
\* The limbs of x from limb i on, carry c taken in, each brought into 0..Limb-1.
Carry(x, i, c) ==
    IF i > Len(x) THEN <<>>
    ELSE The({<<v % Limb>> \o Carry(x, i + 1, v \div Limb) : v \in {x[i] + c}})

BigAdd(x, y) == Carry(<<x[1] + y[1], x[2] + y[2], x[3] + y[3], x[4] + y[4]>>, 1, 0)

\* x - y for x >= y
BigSub(x, y) == Carry(<<x[1] - y[1], x[2] - y[2], x[3] - y[3], x[4] - y[4]>>, 1, 0)

\* x * k for an integer k below 2^10
BigMul(x, k) == Carry(<<x[1] * k, x[2] * k, x[3] * k, x[4] * k>>, 1, 0)

\* x / k for an integer k in 1..2047: the quotient q and the remainder r
BigDiv(x, k) ==
    LET v4 == x[4]
        v3 == (v4 % k) * Limb + x[3]
        v2 == (v3 % k) * Limb + x[2]
        v1 == (v2 % k) * Limb + x[1]
    IN  [q |-> <<v1 \div k, v2 \div k, v3 \div k, v4 \div k>>, r |-> v1 % k]

BigLess(x, y) ==
    \E limb \in 1..4 : x[limb] < y[limb] /\ \A above \in (limb + 1)..4 : x[above] = y[above]

RECURSIVE BitLen(_)
BitLen(n) == IF n = 0 THEN 0 ELSE 1 + BitLen(n \div 2)

\* The number of significant bits of x
BigBits(x) ==
    IF \A limb \in 1..4 : x[limb] = 0 THEN 0
    ELSE LET top == CHOOSE limb \in 1..4 :
                        x[limb] # 0 /\ \A above \in (limb + 1)..4 : x[above] = 0
         IN  20 * (top - 1) + BitLen(x[top])

RECURSIVE Pow2(_)
Pow2(s) == IF s = 0 THEN 1 ELSE 2 * Pow2(s - 1)

\* x with its bits below unit (a power of two up to Limb) rounded away: to
\* the nearest multiple of unit, and half-way (sticky says that x stands for
\* a little more than x) to the even one.
RoundTo(x, unit, sticky) ==
    LET r   == x[1] % unit
        odd == (IF unit = Limb THEN x[2] ELSE x[1] \div unit) % 2 = 1
        up  == \/ 2 * r > unit
               \/ 2 * r = unit /\ (sticky \/ odd)
    IN  Carry(<<x[1] - r + (IF up THEN unit ELSE 0), x[2], x[3], x[4]>>, 1, 0)

\* The double nearest to x + (a fraction of a unit, not zero iff sticky).
Round53(x, sticky) ==
    The({IF s <= 0 THEN x ELSE The({RoundTo(x, unit, sticky) : unit \in {Pow2(s)}})
         : s \in {BigBits(x) - 53}})

FAdd(x, y) ==
    The({Round53(s, FALSE) : s \in {BigAdd(a, b) : a \in {x}, b \in {y}}})

FSub(x, y) ==
    The({Round53(s, FALSE) : s \in {BigSub(a, b) : a \in {x}, b \in {y}}})

FMul(x, k) ==
    The({Round53(s, FALSE) : s \in {BigMul(a, k) : a \in {x}}})

FDiv(x, k) ==
    The({Round53(d.q, d.r # 0) : d \in {BigDiv(a, k) : a \in {x}}})

\* numpy.linspace(0, 1, nbins + 1)[j] for j in 0..nbins: j * step, step the
\* double 1 / nbins, and the last edge set to 1.
bin_edge(nbins, j) ==
    IF j = nbins THEN BigInt(1) ELSE FMul(FDiv(BigInt(1), nbins), j)

\* bin_centers[j] of histogram, j in 1..nbins, as the double numpy computes.
bin_center_double(nbins, j) ==
    FDiv(FAdd(bin_edge(nbins, j - 1), bin_edge(nbins, j)), 2)

RECURSIVE bin_centers_double(_, _)
\* The first j of the bin centers of nbins bins, as doubles
bin_centers_double(nbins, j) ==
    IF j = 0 THEN <<>>
    ELSE Append(bin_centers_double(nbins, j - 1), bin_center_double(nbins, j))

RECURSIVE csum_intensity(_, _, _)
\* numpy.cumsum(counts * bin_centers), its first i values: counts is float32
\* and holds the small integers exactly, the products and the running sum
\* are doubles.
csum_intensity(counts, centers, i) ==
    IF i = 0 THEN <<>>
    ELSE The({Append(csum, IF i = 1 THEN intensity_sum
                                     ELSE FAdd(csum[i - 1], intensity_sum))
              : csum \in {csum_intensity(counts, centers, i - 1)},
                intensity_sum \in {FMul(centers[i], counts[i])}})

\* ISODATA_thres: position i of 1..nbins-1 is selected when
\* 0 <= all_mean[i] - bin_centers[i] < bin_width, in doubles; centers and
\* csum are the bin centers and csum_intensity.  A division by a zero count
\* yields nan or inf, which no comparison selects.
IsodataSelectedAt(counts, centers, csum, i) ==
    LET nb        == Len(counts)
        csuml     == SumTo(counts, i)
        csumh     == Sum(counts) - csuml
        lower     == FDiv(csum[i], csuml)
        higher    == FDiv(FSub(csum[nb], csum[i]), csumh)
        all_mean  == FDiv(FAdd(lower, higher), 2)
        bin_width == FSub(centers[2], centers[1])
    IN  /\ csuml > 0
        /\ csumh > 0
        /\ \E mean \in {all_mean} :
              /\ ~BigLess(mean, centers[i])
              /\ BigLess(FSub(mean, centers[i]), bin_width)

\* The positions ISODATA_thres's mask selects in the histogram counts.
IsodataSelected(counts) ==
    LET nb == Len(counts)
        selected(centers) ==
            The({{i \in 1..(nb - 1) : IsodataSelectedAt(counts, centers, csum, i)}
                 : csum \in {csum_intensity(counts, centers, nb)}})
    IN  The({selected(centers) : centers \in {bin_centers_double(nb, nb)}})

ISODATA_thres(centers, counts) ==
    LET selected == IsodataSelected(counts)
    IN  IF Len(counts) < 2 THEN Raises("IndexError")
        ELSE IF selected = {} THEN Raises("IndexError")
        ELSE Returns(centers[CHOOSE i \in selected : \A j \in selected : i <= j])

\* Fixed-point unit of LI_thres's running threshold: t stands for t / LiUnit.
LiUnit == 10000

RECURSIVE AtanhSeries(_, _, _)
\* 1 + z2/3 + z2^2/5 + ... in units of 1 / LiUnit, from the k-th term p on
\* (z2 is the square of z in the same units): artanh(z) / z.
AtanhSeries(p, z2, k) ==
    IF p = 0 THEN 0
    ELSE p \div (2 * k + 1) + AtanhSeries((p * z2) \div LiUnit, z2, k + 1)

\* (mean_in - mean_out) / (log(mean_in) - log(mean_out)) in units of
\* 1 / LiUnit, for mean_in = inN / inD < mean_out = outN / outD, through
\* log(b / a) = 2 artanh((b - a) / (b + a)).
LogMean(inN, inD, outN, outD) ==
    LET zn   == outN * inD - inN * outD
        zd   == outN * inD + inN * outD
        z    == (zn * LiUnit) \div zd
        z2   == (z * z) \div LiUnit
        mid  == (zd * LiUnit) \div (2 * inD * outD)
    IN  (mid * LiUnit) \div AtanhSeries(LiUnit, z2, 0)

\* The smallest gap between two distinct scores, times the scores' common
\* denominator (numpy.min(numpy.diff(numpy.unique(decision)))).
MinGap(decision) ==
    LET vals == {decision[i].n : i \in Idx(decision)}
        gaps == {p[2] - p[1] : p \in {q \in vals \X vals : q[2] > q[1]}}
    IN  CHOOSE g \in gaps : \A h \in gaps : g <= h

\* Iterations of LI_thres's loop the model follows before it reports that the
\* loop has not ended.
MaxLiIter == 40

RECURSIVE LiLoop(_, _, _, _, _, _)
\* The while loop of LI_thres; t_next and t_curr in units of 1 / LiUnit,
\* the loop's tolerance is gap / (2 den).
LiLoop(counts, gap, den, t_next, t_curr, iter) ==
    IF ~(Abs(t_next - t_curr) * 2 * den > gap * LiUnit) THEN Returns(Frac(t_next, LiUnit))
    ELSE IF iter >= MaxLiIter THEN Raises("NoReturn")
    ELSE LET nb      == Len(counts)
             outlier == {j \in 1..nb : (2 * j - 1) * LiUnit > 2 * nb * t_next}
             inlier  == (1..nb) \ outlier
             wOut    == Sum([j \in 1..nb |-> IF j \in outlier THEN counts[j] ELSE 0])
             wIn     == Sum([j \in 1..nb |-> IF j \in inlier THEN counts[j] ELSE 0])
             sOut    == Sum([j \in 1..nb |-> IF j \in outlier THEN counts[j] * (2 * j - 1) ELSE 0])
             sIn     == Sum([j \in 1..nb |-> IF j \in inlier THEN counts[j] * (2 * j - 1) ELSE 0])
         IN  IF wOut = 0 \/ wIn = 0 THEN Raises("ZeroDivisionError")
             ELSE LiLoop(counts, gap, den,
                         LogMean(sIn, 2 * nb * wIn, sOut, 2 * nb * wOut), t_next, iter + 1)

LI_thres(decision, centers, counts) ==
    IF \A i \in Idx(decision) : IsNaN(decision[i]) THEN Raises("ValueError")
    ELSE LET den  == decision[1].d
             gap  == MinGap(decision)
             mean == (Sum([i \in Idx(decision) |-> decision[i].n]) * LiUnit)
                        \div (Len(decision) * den)
             \* t_curr = -2 * tolerance = -gap / den
             t0   == 0 - (gap * LiUnit) \div den
         IN  LiLoop(counts, gap, den, mean, t0, 0)

\* range(10000) of Minimum_thres.
SmoothCap == 10000

\* scipy.ndimage.uniform_filter1d(hist, 3), mode 'reflect', times 3: every
\* entry becomes the sum of itself and its two neighbours, the array's ends
\* mirrored.  All entries carry the same factor, which no comparison sees.
uniform_filter1d(hist) ==
    [i \in Idx(hist) |-> hist[Max2(i - 1, 1)] + hist[i] + hist[Min2(i + 1, Len(hist))]]

RECURSIVE SmoothLoop(_, _)
\* The for loop of Minimum_thres from iteration counter on: the smoothed
\* histogram it leaves.
SmoothLoop(smooth_hist, counter) ==
    IF counter >= SmoothCap THEN smooth_hist
    ELSE LET smoothed == uniform_filter1d(smooth_hist)
         IN  IF Len(find_local_maxima_idx(smoothed)) < 3 THEN smoothed
             ELSE SmoothLoop(smoothed, counter + 1)

\* numpy.argmin over hist[from..to]: the first position of the minimum.
ArgMinBetween(hist, from, to) ==
    CHOOSE i \in from..to :
        /\ \A j \in from..to : hist[i] <= hist[j]
        /\ \A j \in from..(i - 1) : hist[j] > hist[i]

Minimum_thres(centers, counts) ==
    LET smooth_hist  == SmoothLoop(counts, 0)
        maximum_idxs == find_local_maxima_idx(smooth_hist)
    IN  IF Len(maximum_idxs) < 2 THEN Raises("IndexError")
        ELSE Returns(centers[ArgMinBetween(smooth_hist, maximum_idxs[1], maximum_idxs[2])])

\* numpy.argmax over integer counts: the first position of the maximum.
ArgMaxInt(v) ==
    CHOOSE i \in Idx(v) :
        /\ \A j \in Idx(v) : v[j] <= v[i]
        /\ \A j \in 1..(i - 1) : v[j] < v[i]

\* Triangle_thres, positions 1-based.
Triangle_thres(centers, counts) ==
    LET nbins   == Len(counts)
        nonzero == {j \in 1..nbins : counts[j] > 0}
    IN  IF nonzero = {} THEN Raises("IndexError")
        ELSE
        LET peak0    == ArgMaxInt(counts)
            peak_height == counts[peak0]
            low0     == CHOOSE j \in nonzero : \A k \in nonzero : j <= k
            high0    == CHOOSE j \in nonzero : \A k \in nonzero : j >= k
            flip     == peak0 - low0 < high0 - peak0
            flipped  == IF flip THEN [j \in 1..nbins |-> counts[nbins + 1 - j]] ELSE counts
            arg_low_level   == IF flip THEN nbins + 1 - high0 ELSE low0
            arg_peak_height == IF flip THEN nbins + 1 - peak0 ELSE peak0
            width    == arg_peak_height - arg_low_level
            \* length[x] for x1 = 0..width-1, before the division by norm
            length   == [x \in 1..width |->
                            peak_height * (x - 1) - width * flipped[x - 1 + arg_low_level]]
        IN  IF width = 0 THEN Raises("ValueError")
            ELSE LET arg_level == ArgMaxInt(length) - 1 + arg_low_level
                 IN  Returns(centers[IF flip THEN nbins + 1 - arg_level ELSE arg_level])

\* ---------------------------------------------------------- instances ----
\* nbins=None / random_state=None of the constructors.
None == -1

\* thresh_ before the first eval that sets it.
Unset == Frac(0, -1)

Methods == {"otsu", "yen", "isodata", "li", "minimum", "triangle"}

\* A thresholder instance: the attributes the constructors set, and thresh_.
Instance(s, m, b, r) ==
    [strategy |-> s, method |-> m, nbins |-> b, random_state |-> r, thresh_ |-> Unset]

\* HIST.__init__(method, nbins)
HIST_init(method, nbins) == Instance("HIST", method, nbins, None)

\* AUCP.__init__()
AUCP_init == Instance("AUCP", "", None, None)

\* FGD.__init__()
FGD_init == Instance("FGD", "", None, None)

\* DECOMP.__init__(method)
DECOMP_init(method) == Instance("DECOMP", method, None, None)

\* MCST.__init__(random_state)
MCST_init(random_state) == Instance("MCST", "", None, random_state)

\* What a call of eval leaves: the instance afterwards, the exception raised
\* ("none" when eval returns), the step that raised it, the labels returned,
\* the normalized scores the labels were cut from, and the bin count the
\* histogram was built with (HIST).
Outcome(self, exc, step, labels, scores, bins) ==
    [self |-> self, exc |-> exc, step |-> step, labels |-> labels,
     scores |-> scores, bins |-> bins]

\* int(len(decision) * 0.7): the double product truncated, which is
\* floor(7 n / 10) for every n below 90 (90 * 0.7 is 62.99999999999999).
DefaultBins_rounded(n) == (7 * n + 5) \div 10

DefaultBins(n) == (7 * n) \div 10

\* self.method_funcs[self.method] applied as HIST.eval applies it.
HistThreshold(method, decision, centers, counts) ==
    CASE method = "otsu"     -> OTSU_thres(centers, counts)
      [] method = "yen"      -> YEN_thres(centers, counts)
      [] method = "isodata"  -> ISODATA_thres(centers, counts)
      [] method = "li"       -> LI_thres(decision, centers, counts)
      [] method = "minimum"  -> Minimum_thres(centers, counts)
      [] method = "triangle" -> Triangle_thres(centers, counts)

\* self.nbins = nbins, the assignment of HIST.eval.
StoreBins_local(self, nbins) == self

StoreBins(self, nbins) == [self EXCEPT !.nbins = nbins]

\* scores[numpy.where(decision > threshold)] = 1 over zeros.
HistLabels_inclusive(decision, threshold) ==
    [i \in Idx(decision) |-> IF Lt(decision[i], threshold) THEN 0 ELSE 1]

HistLabels(decision, threshold) ==
    [i \in Idx(decision) |-> IF Gt(decision[i], threshold) THEN 1 ELSE 0]

\* HIST.eval past check_array: normalize, the bin count, the histogram, the
\* method's threshold, the labels.
HistEvalChecked(self, decision) ==
    LET scores == normalize(decision.data)
        nbins  == IF self.nbins = None THEN DefaultBins(Len(scores)) ELSE self.nbins
        self1  == IF self.nbins = None THEN StoreBins(self, nbins) ELSE self
    IN  IF nbins <= 0 THEN Outcome(self1, "ValueError", "histogram", <<>>, scores, nbins)
        ELSE
        LET centers == bin_centers(nbins)
            counts  == histogram(scores, nbins)
            found   == HistThreshold(self.method, scores, centers, counts)
        IN  IF found.exc # "none" THEN Outcome(self1, found.exc, "threshold", <<>>, scores, nbins)
            ELSE Outcome([self1 EXCEPT !.thresh_ = found.thresh], "none", "return",
                         HistLabels(scores, found.thresh), scores, nbins)

\* HIST.eval with the default bin count stored before the argument is checked.
HIST_eval_late_check(self, decision) ==
    IF ~check_array(decision)
    THEN Outcome(IF self.nbins = None
                 THEN StoreBins(self, DefaultBins(Len(decision.data)))
                 ELSE self,
                 "ValueError", "check_array", <<>>, <<>>, None)
    ELSE HistEvalChecked(self, decision)

\* HIST.eval(decision)
HIST_eval(self, decision) ==
    IF ~check_array(decision) THEN Outcome(self, "ValueError", "check_array", <<>>, <<>>, None)
    ELSE HistEvalChecked(self, decision)

\* ---------------------------------------------------- density, grid ----
\* numpy.linspace(0, 1, size): grid point j (1-based) of size points.
dat_range(size, j) == Frac(j - 1, size - 1)

\* thresh_utility.gen_kde(decision, 0, 1, size): a kernel density estimate of
\* the normalized scores at the size grid points.  The kernel is a triangle
\* of half-width 1/4; the values carry a common positive factor
\* (4 den (size - 1)), which no use of them sees.  No density is fitted to
\* undefined scores: the estimator raises ValueError.
gen_kde(decision, size) ==
    IF \E i \in Idx(decision) : IsNaN(decision[i]) THEN [exc |-> "ValueError", val |-> <<>>]
    ELSE LET den  == decision[1].d
             half == den * (size - 1)
             at(j) == Sum([i \in Idx(decision) |->
                        Max2(0, half - 4 * Abs((j - 1) * den - decision[i].n * (size - 1)))])
         IN  [exc |-> "none", val |-> [j \in 1..size |-> at(j)]]

\* thresh_utility.gen_cdf(decision, 0, 1, size): the empirical distribution
\* function of the normalized scores at the size grid points, times the
\* number of scores.  Undefined scores lie below no grid point.
gen_cdf(decision, size) ==
    [j \in 1..size |->
        Cardinality({i \in Idx(decision) :
            ~IsNaN(decision[i]) /\ decision[i].n * (size - 1) <= (j - 1) * decision[i].d})]

\* -------------------------------------------------------------- AUCP ----
\* sklearn.metrics.auc(dat_range[i:], val[i:]) for val = normalize(kde), in
\* units of 1 / (2 (max - min) (size - 1)): the trapezoids from grid point i
\* on.  auc raises ValueError when given fewer than two points.
AucFrom(kde, i) ==
    Sum([k \in 1..(Len(kde) - i) |-> kde[i + k - 1] + kde[i + k] - 2 * SeqMin(kde)])

\* numpy.median of the normalized scores, times 2 den.
Median2(decision) ==
    LET n      == Len(decision)
        nums   == [i \in 1..n |-> decision[i].n]
        \* the k-th smallest
        kth(k) == CHOOSE x \in {nums[i] : i \in 1..n} :
                     /\ Cardinality({i \in 1..n : nums[i] < x}) < k
                     /\ Cardinality({i \in 1..n : nums[i] <= x}) >= k
    IN  IF n % 2 = 1 THEN 2 * kth((n + 1) \div 2) ELSE kth(n \div 2) + kth(n \div 2 + 1)

\* perc = med + abs(med - mean), times 2 n den.
PercN(decision) ==
    LET n    == Len(decision)
        med  == n * Median2(decision)
        mean == 2 * Sum([i \in 1..n |-> decision[i].n])
    IN  med + Abs(med - mean)

RECURSIVE AucpScan(_, _, _)
\* The for loop of AUCP.eval from grid point i on.
AucpScan(decision, kde, i) ==
    IF i > Len(kde) THEN Returns(Frac(1, 1))
    ELSE IF Len(kde) - i + 1 < 2 THEN Raises("ValueError")
    ELSE IF /\ SeqMax(kde) # SeqMin(kde)
            /\ AucFrom(kde, i) * 2 * Len(decision) * decision[1].d
                  < PercN(decision) * AucFrom(kde, 1)
         THEN Returns(dat_range(Len(kde), i))
         ELSE AucpScan(decision, kde, i + 1)

\* AUCP.eval(decision)
AUCP_eval(self, decision) ==
    IF ~check_array(decision) THEN Outcome(self, "ValueError", "check_array", <<>>, <<>>, None)
    ELSE
    LET scores == normalize(decision.data)
        kde    == gen_kde(scores, Len(scores) * 2)
    IN  IF kde.exc # "none" THEN Outcome(self, kde.exc, "gen_kde", <<>>, scores, None)
        ELSE
        LET found == AucpScan(scores, kde.val, 1)
        IN  IF found.exc # "none" THEN Outcome(self, found.exc, "threshold", <<>>, scores, None)
            ELSE Outcome([self EXCEPT !.thresh_ = found.thresh], "none", "return",
                         cut(scores, found.thresh), scores, None)

\* --------------------------------------------------------------- FGD ----
\* numpy.gradient(val, h) at grid point j, times 2 h: central differences
\* inside, one-sided differences at the two ends.
gradient(val, j) ==
    IF j = 1 THEN 2 * (val[2] - val[1])
    ELSE IF j = Len(val) THEN 2 * (val[j] - val[j - 1])
    ELSE val[j + 1] - val[j - 1]

RECURSIVE FgdScan_break_first(_, _, _)
\* The loop leaving at the second position before it has recorded it.
FgdScan_break_first(val, i, ind) ==
    IF i > Len(val) - 1 THEN ind
    ELSE IF gradient(val, i) > 0 /\ gradient(val, i + 1) <= 0
         THEN IF Len(ind) + 1 = 2 THEN ind
              ELSE FgdScan_break_first(val, i + 1, Append(ind, i))
         ELSE FgdScan_break_first(val, i + 1, ind)

RECURSIVE FgdScan(_, _, _)
\* The for loop of FGD.eval from position i on: the list ind it leaves.
FgdScan(val, i, ind) ==
    IF i > Len(val) - 1 THEN ind
    ELSE IF gradient(val, i) > 0 /\ gradient(val, i + 1) <= 0
         THEN IF Len(ind) + 1 = 2 THEN Append(ind, i)
              ELSE FgdScan(val, i + 1, Append(ind, i))
         ELSE FgdScan(val, i + 1, ind)

\* FGD.eval(decision)
FGD_eval(self, decision) ==
    IF ~check_array(decision) THEN Outcome(self, "ValueError", "check_array", <<>>, <<>>, None)
    ELSE
    LET scores == normalize(decision.data)
        size   == Len(scores) * 3
        kde    == gen_kde(scores, size)
    IN  IF kde.exc # "none" THEN Outcome(self, kde.exc, "gen_kde", <<>>, scores, None)
        ELSE
        LET ind   == FgdScan(kde.val, 1, <<>>)
            limit == IF Len(ind) >= 2
                     THEN Frac((ind[1] - 1) + (ind[2] - 1), 2 * (size - 1))
                     ELSE Frac(11, 10)
        IN  Outcome([self EXCEPT !.thresh_ = limit], "none", "return",
                    cut(scores, limit), scores, None)

\* ------------------------------------------------------------ DECOMP ----
RECURSIVE SqrtBetween(_, _, _)
\* The integer square root of x, known to lie in lo..hi.
SqrtBetween(x, lo, hi) ==
    IF lo >= hi THEN lo
    ELSE LET mid == (lo + hi + 1) \div 2
         IN  IF mid * mid <= x THEN SqrtBetween(x, mid, hi) ELSE SqrtBetween(x, lo, mid - 1)

Sqrt(x) == SqrtBetween(x, 0, 46340)

\* numpy.max of the decomposition of the normalized distribution function
\* val (cdf holds val's numerators over the common denominator max - min).
\*   PCA: the one component is val - mean(val) up to the sign svd_flip
\*        gives it, which makes the entry of largest magnitude positive.
\*   NMF: the rank-one factor val / sqrt(norm(val)), whose maximum
\*        (sum of val squared) to the power -1/4 is carried in thousandths.
DecompMax(method, cdf) ==
    LET size  == Len(cdf)
        lo    == SeqMin(cdf)
        range == SeqMax(cdf) - lo
        total == Sum([j \in 1..size |-> cdf[j] - lo])
        sq    == Sum([j \in 1..size |-> (cdf[j] - lo) * (cdf[j] - lo)])
    IN  IF method = "PCA"
        THEN Frac(Max2(size * range - total, total), size * range)
        ELSE Frac(Sqrt(((range * 1000000) \div Sqrt(sq * 1000000)) * 1000), 1000)

\* DECOMP.eval(decision)
DECOMP_eval(self, decision) ==
    IF ~check_array(decision) THEN Outcome(self, "ValueError", "check_array", <<>>, <<>>, None)
    ELSE
    LET scores == normalize(decision.data)
        cdf    == gen_cdf(scores, Len(scores) * 3)
    IN  \* normalize(val) is nan throughout when val is constant, and
        \* fit_transform refuses nan
        IF SeqMax(cdf) = SeqMin(cdf)
        THEN Outcome(self, "ValueError", "fit_transform", <<>>, scores, None)
        ELSE
        LET dec   == DecompMax(self.method, cdf)
            limit == IF Gt(dec, Frac(1, 2)) THEN Frac(dec.d - dec.n, dec.d) ELSE dec
        IN  Outcome([self EXCEPT !.thresh_ = limit], "none", "return",
                    cut(scores, limit), scores, None)

\* -------------------------------------------------------------- MCST ----
\* The random generator: a state in 0..RngMod-1, the draw a state gives
\* (state / RngMod, uniform on [0,1)) and the state after a draw.
RngMod == 7

RngNext(state) == (3 * state + 1) % RngMod

RECURSIVE RngDraws(_, _)
\* The next n draws from state, as numerators over RngMod.
RngDraws(state, n) ==
    IF n = 0 THEN <<>> ELSE <<state>> \o RngDraws(RngNext(state), n - 1)

RECURSIVE RngAfter(_, _)
RngAfter(state, n) == IF n = 0 THEN state ELSE RngAfter(RngNext(state), n - 1)

\* scipy.stats.uniform.rvs(size=n, random_state=random_state): the draws of
\* a generator seeded afresh with an integer random_state, or of numpy's
\* global generator (whose state is ambient, and advances) when random_state
\* is None.  state is the global generator's state after the call.
rvs_unseeded(random_state, ambient, n) ==
    [draws |-> RngDraws(ambient, n), state |-> RngAfter(ambient, n)]

rvs(random_state, ambient, n) ==
    IF random_state = None
    THEN [draws |-> RngDraws(ambient, n), state |-> RngAfter(ambient, n)]
    ELSE [draws |-> RngDraws(random_state % RngMod, n), state |-> ambient]

\* scipy.stats.shapiro(arr).pvalue.  The test's statistic is not computed:
\* its stand-in calls a sample the more normal the closer its mean lies to
\* the middle of [0,1], p = 1 / (1 + |2 sum(arr) - len(arr)|), and is nan for
\* a sample holding nan.  Callers pass at least three values (shapiro raises
\* ValueError for fewer).
RECURSIVE FracSum(_, _)
FracSum(arr, k) ==
    IF k = 1 THEN arr[1]
    ELSE LET rest == FracSum(arr, k - 1)
         IN  IF rest.d = arr[k].d THEN Frac(rest.n + arr[k].n, rest.d)
             ELSE Frac(rest.n * arr[k].d + arr[k].n * rest.d, rest.d * arr[k].d)

shapiro_pvalue(arr) ==
    IF \E i \in Idx(arr) : IsNaN(arr[i]) THEN NaN
    ELSE LET total == FracSum(arr, Len(arr))
         IN  Frac(total.d, total.d + Abs(2 * total.n - Len(arr) * total.d))

RECURSIVE McstLoop_keep_baseline(_, _, _, _, _)
\* The loop with p_std left at the baseline.
McstLoop_keep_baseline(decision, rnd, i, p_std, povr) ==
    IF i > Len(rnd) THEN povr
    ELSE LET p_check == shapiro_pvalue(Append(decision, rnd[i]))
         IN  IF Gt(p_check, p_std)
             THEN McstLoop_keep_baseline(decision, rnd, i + 1, p_std, Append(povr, rnd[i]))
             ELSE McstLoop_keep_baseline(decision, rnd, i + 1, p_std, povr)

RECURSIVE McstLoop(_, _, _, _, _)
\* The for loop of MCST.eval from sample i on: the list povr it leaves.
McstLoop(decision, rnd, i, p_std, povr) ==
    IF i > Len(rnd) THEN povr
    ELSE LET p_check == shapiro_pvalue(Append(decision, rnd[i]))
         IN  IF Gt(p_check, p_std)
             THEN McstLoop(decision, rnd, i + 1, p_check, Append(povr, rnd[i]))
             ELSE McstLoop(decision, rnd, i + 1, p_std, povr)

\* numpy.min(povr) for a non-empty list of samples, none of them nan.
FracMin(povr) ==
    povr[CHOOSE i \in Idx(povr) : \A j \in Idx(povr) : ~Gt(povr[i], povr[j])]

\* MCST.eval(decision), with numpy's global generator in state ambient.
MCST_eval(self, decision, ambient) ==
    IF ~check_array(decision) THEN Outcome(self, "ValueError", "check_array", <<>>, <<>>, None)
    ELSE
    LET scores == normalize(decision.data)
    IN  IF Len(scores) < 3 THEN Outcome(self, "ValueError", "shapiro", <<>>, scores, None)
        ELSE
        LET rnd   == normalize(rvs(self.random_state, ambient, Len(scores)).draws)
            povr  == McstLoop(scores, rnd, 1, shapiro_pvalue(scores), <<>>)
            limit == IF Len(povr) > 0 THEN FracMin(povr) ELSE Frac(11, 10)
        IN  Outcome([self EXCEPT !.thresh_ = limit], "none", "return",
                    cut(scores, limit), scores, None)

\* ------------------------------------------------------ state machine ----
VARIABLES
    self,       \* the thresholder instance: its attributes now
    created,    \* the instance as its constructor left it
    ret,        \* the last call of eval on it: argument, exception, labels
    rerun,      \* the last call repeated the argument of the call before
                \* it, and both returned
    np_random   \* the state of numpy's global random generator

vars == <<self, created, ret, rerun, np_random>>

\* No call of eval yet.
NoCall ==
    [input |-> Arr(0, "", <<>>), exc |-> "nocall", step |-> "", labels |-> <<>>,
     scores |-> <<>>, bins |-> None]

\* The record of a call with argument decision that left outcome o.
Called(decision, o) ==
    [input |-> decision, exc |-> o.exc, step |-> o.step, labels |-> o.labels,
     scores |-> o.scores, bins |-> o.bins]

HistInstances == {HIST_init(m, b) : m \in Methods, b \in {None} \cup 1..MaxBins}

KdeInstances == {AUCP_init, FGD_init}

Instances ==
    HistInstances
        \cup KdeInstances
        \cup {DECOMP_init(m) : m \in {"PCA", "NMF"}}
        \cup {MCST_init(r) : r \in {None} \cup 0..MaxSeed}

\* A program that has constructed one of the instances and called nothing.
Constructed(instances) ==
    /\ self \in instances
    /\ created = self
    /\ ret = NoCall
    /\ rerun = FALSE
    /\ np_random \in IF self.strategy = "MCST" THEN 0..(RngMod - 1) ELSE {0}

Init == Constructed(Instances)

\* eval(decision) has left outcome o.
Eval(decision, o) ==
    /\ self' = o.self
    /\ ret' = Called(decision, o)
    /\ rerun' = (ret.exc = "none" /\ o.exc = "none" /\ ret.input = decision)
    /\ UNCHANGED created

AUCP_call(decision) ==
    /\ self.strategy = "AUCP"
    /\ Eval(decision, AUCP_eval(self, decision))
    /\ UNCHANGED np_random

DECOMP_call(decision) ==
    /\ self.strategy = "DECOMP"
    /\ Eval(decision, DECOMP_eval(self, decision))
    /\ UNCHANGED np_random

FGD_call(decision) ==
    /\ self.strategy = "FGD"
    /\ Eval(decision, FGD_eval(self, decision))
    /\ UNCHANGED np_random

HIST_call(decision) ==
    /\ self.strategy = "HIST"
    /\ Eval(decision, HIST_eval(self, decision))
    /\ UNCHANGED np_random

MCST_call(decision) ==
    /\ self.strategy = "MCST"
    /\ LET o == MCST_eval(self, decision, np_random)
       IN  /\ Eval(decision, o)
           /\ np_random' = IF o.exc = "none"
                           THEN rvs(self.random_state, np_random, Len(decision.data)).state
                           ELSE np_random

\* Any sequence of calls of eval on the instance.
Next ==
    \E decision \in Inputs :
        \/ AUCP_call(decision)
        \/ DECOMP_call(decision)
        \/ FGD_call(decision)
        \/ HIST_call(decision)
        \/ MCST_call(decision)

Spec == Init /\ [][Next]_vars

\* ---- one call of HIST.eval on a fresh instance, longer score vectors ----
HistLen == 5
HistVal == 2

\* Scores whose histogram in 4 bins, [1,3,0,2], has two peaks.
BimodalExample == <<0, 1, 1, 1, 3, 3>>

HistInputs ==
    Vectors(HistLen, HistVal)
        \cup {Arr(1, "float", OtsuExample), Arr(1, "float", BimodalExample)}

InitHist == Constructed(HistInstances)

NextHist == ret = NoCall /\ \E decision \in HistInputs : HIST_call(decision)

SpecHist == InitHist /\ [][NextHist]_vars

\* ---- one call of AUCP.eval or FGD.eval on a fresh instance ----
KdeLen == 4
KdeVal == 3

KdeInputs == Vectors(KdeLen, KdeVal)

InitKde == Constructed(KdeInstances)

NextKde ==
    /\ ret = NoCall
    /\ \E decision \in KdeInputs : AUCP_call(decision) \/ FGD_call(decision)

SpecKde == InitKde /\ [][NextKde]_vars

\* ---- one call of HIST.eval with the isodata method, up to 7 bins ----
IsoBins == 7
IsoLen == 4
IsoVal == 2

\* Ten binary scores: four 0s and six 1s, which the default bin count puts
\* in int(10 * 0.7) = 7 bins with counts [4,0,0,0,0,0,6].
BinaryExample == <<0, 0, 0, 0, 1, 1, 1, 1, 1, 1>>

IsoInstances == {HIST_init("isodata", b) : b \in {None} \cup 2..IsoBins}

IsoInputs == Vectors(IsoLen, IsoVal) \cup {Arr(1, "float", BinaryExample)}

InitIso == Constructed(IsoInstances)

NextIso == ret = NoCall /\ \E decision \in IsoInputs : HIST_call(decision)

SpecIso == InitIso /\ [][NextIso]_vars

\* ------------------------------------------------------------ properties ----
\* The argument of the last call passed check_array.
ValidCall == ret.exc # "nocall" /\ check_array(ret.input)

\* C1: every strategy's eval, on any valid one-dimensional score array (a
\* HIST instance with default bins on one or two scores included), returns
\* one 0/1 label per score and leaves thresh_ set; it raises nothing.
C1_EvalAlwaysReturns ==
    ValidCall =>
        /\ ret.exc = "none"
        /\ Len(ret.labels) = Len(ret.input.data)
        /\ \A i \in Idx(ret.labels) : ret.labels[i] \in {0, 1}
        /\ self.thresh_ # Unset

\* C2: after a call that returned, a score is labelled 1 exactly when its
\* normalized value is strictly greater than thresh_, and 0 otherwise; a
\* score equal to thresh_ is an inlier.
C2_LabelIffAboveThresh ==
    ret.exc = "none" =>
        /\ Len(ret.labels) = Len(ret.scores)
        /\ \A i \in Idx(ret.scores) :
              /\ ret.labels[i] \in {0, 1}
              /\ (ret.labels[i] = 1) <=> Gt(ret.scores[i], self.thresh_)

C2_Witness ==
    /\ ret.exc = "none"
    /\ self.strategy = "HIST"
    /\ \E i, j \in Idx(ret.scores) :
          /\ Eq(ret.scores[i], self.thresh_) /\ ret.labels[i] = 0
          /\ ret.labels[j] = 1

\* Two consecutive calls returned and had the same argument.
SameCallTwice == ret.exc = "none" /\ ret'.exc = "none" /\ ret'.input = ret.input

SameResult ==
    /\ self'.thresh_ = self.thresh_ \/ Eq(self'.thresh_, self.thresh_)
    /\ ret'.labels = ret.labels

C4_InvalidInputLeavesInstance ==
    [][(ret'.exc # "nocall" /\ ret' # ret /\ ~check_array(ret'.input))
          => (ret'.exc = "ValueError" /\ ret'.step = "check_array" /\ self' = self)]_vars

C4_Witness ==
    /\ ret.step = "check_array"
    /\ self.strategy = "HIST"
    /\ created.nbins = None
    /\ self.thresh_ # Unset

\* round(x / 10), halves to the even neighbour.
RoundTenths(x) ==
    LET q == x \div 10
        r == x % 10
    IN  IF r < 5 THEN q ELSE IF r > 5 THEN q + 1 ELSE IF q % 2 = 0 THEN q ELSE q + 1

\* C5 (as stated): a HIST instance constructed without nbins evaluates n
\* scores with round(0.7 * n) bins, whatever n.
C5_DefaultBinsRounded ==
    (ValidCall /\ self.strategy = "HIST" /\ created.nbins = None)
        => ret.bins = RoundTenths(7 * Len(ret.input.data))

\* C5 (amended): it evaluates them with int(0.7 * n) bins, 0.7 * n cut
\* to its integer part: the count b with b <= 0.7 * n < b + 1.
C5_DefaultBinsTruncated ==
    (ValidCall /\ self.strategy = "HIST" /\ created.nbins = None)
        => /\ 10 * ret.bins <= 7 * Len(ret.input.data)
           /\ 7 * Len(ret.input.data) < 10 * (ret.bins + 1)

C5_Witness ==
    /\ self.strategy = "HIST"
    /\ created.nbins = None
    /\ ret.exc = "none"
    /\ Len(ret.input.data) = 4
    /\ ret.bins = 2

\* C8: a HIST instance constructed without nbins stores, at its first valid
\* call, the bin count it derives from that call's length, and every later
\* call uses the stored count whatever its length; a count given at
\* construction is used by every call and never changed.
C8_BinsStoredAndReused ==
    [][(self.strategy = "HIST" /\ ret' # ret /\ check_array(ret'.input))
          => /\ ret'.bins = self'.nbins
             /\ IF self.nbins = None
                THEN /\ 10 * self'.nbins <= 7 * Len(ret'.input.data)
                     /\ 7 * Len(ret'.input.data) < 10 * (self'.nbins + 1)
                ELSE self'.nbins = self.nbins
             /\ created.nbins # None => self'.nbins = created.nbins]_vars

C8_Witness ==
    /\ self.strategy = "HIST"
    /\ created.nbins = None
    /\ ret.exc = "none"
    /\ ret.bins = self.nbins
    /\ ret.bins # (7 * Len(ret.input.data)) \div 10

\* C7: AUCP.eval on valid scores sets thresh_ to the first grid point whose
\* partial area, from it to the end of the grid, is below percentage times
\* the total area; when no grid point is such, it still returns, with
\* thresh_ = 1 and every label 0.
C7_AucpFirstBelowElseOne ==
    (ValidCall /\ self.strategy = "AUCP" /\ ret.step # "gen_kde") =>
        LET kde    == gen_kde(ret.scores, Len(ret.scores) * 2).val
            m      == Len(kde)
            below  == {i \in 1..(m - 1) :
                          /\ SeqMax(kde) # SeqMin(kde)
                          /\ AucFrom(kde, i) * 2 * Len(ret.scores) * ret.scores[1].d
                                < PercN(ret.scores) * AucFrom(kde, 1)}
        IN  /\ ret.exc = "none"
            /\ IF below # {}
               THEN \E i \in below :
                       /\ \A k \in below : i <= k
                       /\ Eq(self.thresh_, Frac(i - 1, m - 1))
               ELSE /\ Eq(self.thresh_, Frac(1, 1))
                    /\ \A i \in Idx(ret.labels) : ret.labels[i] = 0

\* The positions of an otsu call's variance12 and the variance at each.
OtsuCalled == self.strategy = "HIST" /\ self.method = "otsu" /\ ret.exc = "none"

Variance12(i) == OtsuVariance(histogram(ret.scores, ret.bins), i)

\* C6: an otsu call on scores that normalize returns the center of the
\* lowest-indexed bin whose inter-class variance no bin's exceeds; the
\* scores [0.1,0.2,0.15,0.9,0.95,0.12,0.88] in 4 bins get the labels
\* [0,0,0,1,1,0,1].
C6_OtsuFirstMaximizer ==
    (OtsuCalled /\ \A k \in Idx(ret.scores) : ~IsNaN(ret.scores[k])) =>
        /\ \E i \in 1..(ret.bins - 1) :
              /\ Eq(self.thresh_, Frac(2 * i - 1, 2 * ret.bins))
              /\ \A j \in 1..(ret.bins - 1) : ~Gt(Variance12(j), Variance12(i))
              /\ \A j \in 1..(i - 1) : Lt(Variance12(j), Variance12(i))
        /\ (ret.input.data = OtsuExample /\ ret.bins = 4) => ret.labels = <<0, 0, 0, 1, 1, 0, 1>>

C6_Witness ==
    /\ OtsuCalled
    /\ ret.input.data = OtsuExample
    /\ ret.bins = 4
    /\ ret.labels = <<0, 0, 0, 1, 1, 0, 1>>
    /\ Eq(self.thresh_, Frac(1, 8))
    /\ Eq(Variance12(1), Variance12(3))

\* thresh_ is the center of one of the bins the call used.
ThreshIsBinCenter ==
    \E j \in 1..ret.bins : Eq(self.thresh_, Frac(2 * j - 1, 2 * ret.bins))

\* C9 (as stated): whichever of the six methods a HIST instance uses, the
\* thresh_ a call leaves is one of the histogram's bin centers.
C9_ThreshIsBinCenter ==
    (self.strategy = "HIST" /\ ret.exc = "none") => ThreshIsBinCenter

\* C9 (amended): that holds of otsu, yen, isodata, minimum and triangle;
\* li leaves the value its iteration converged to.
C9_ThreshIsBinCenterUnlessLi ==
    (self.strategy = "HIST" /\ ret.exc = "none" /\ self.method # "li") => ThreshIsBinCenter

C9_Witness ==
    /\ self.strategy = "HIST"
    /\ self.method = "minimum"
    /\ ret.exc = "none"
    /\ ThreshIsBinCenter
    /\ \E i \in Idx(ret.labels) : ret.labels[i] = 1

\* The positions where the derivative of an FGD call's density turns from
\* positive to not positive.
Inflections ==
    LET val == gen_kde(ret.scores, Len(ret.scores) * 3).val
    IN  {i \in 1..(Len(val) - 1) : gradient(val, i) > 0 /\ gradient(val, i + 1) <= 0}

\* C10: an FGD call sets thresh_ to the midpoint of the grid locations of
\* the two lowest positions where the derivative turns from positive to not
\* positive; with fewer than two such positions thresh_ is 1.1 and every
\* label is 0.
C10_FgdMidpointOrDefault ==
    (ValidCall /\ self.strategy = "FGD" /\ ret.step # "gen_kde") =>
        /\ ret.exc = "none"
        /\ IF Cardinality(Inflections) >= 2
           THEN \E a, b \in Inflections :
                   /\ a < b
                   /\ \A k \in Inflections : a <= k /\ (k # a => b <= k)
                   /\ Eq(self.thresh_, Frac((a - 1) + (b - 1), 2 * (Len(ret.scores) * 3 - 1)))
           ELSE /\ Eq(self.thresh_, Frac(11, 10))
                /\ \A i \in Idx(ret.labels) : ret.labels[i] = 0

C10_Witness ==
    /\ self.strategy = "FGD"
    /\ ret.exc = "none"
    /\ Cardinality(Inflections) >= 2
    /\ \E i \in Idx(ret.labels) : ret.labels[i] = 1

\* The normalized samples an MCST call on n scores draws, the global
\* generator being in state ambient.
Samples(ambient, n) == normalize(rvs(self.random_state, ambient, n).draws)

\* The p-value of the scores with sample i of rnd appended.
PCheck(scores, rnd, i) == shapiro_pvalue(Append(scores, rnd[i]))

\* The samples of rnd whose p-value exceeds the baseline and that of every
\* sample drawn before them: those above the running best.
Candidates(scores, rnd) ==
    {i \in Idx(rnd) :
        /\ Gt(PCheck(scores, rnd, i), shapiro_pvalue(scores))
        /\ \A j \in 1..(i - 1) : Gt(PCheck(scores, rnd, i), PCheck(scores, rnd, j))}

\* thresh_ and the labels are those of the candidates cand of rnd.
MinCandidateOrDefault(thresh, labels, rnd, cand) ==
    IF cand = {}
    THEN /\ Eq(thresh, Frac(11, 10))
         /\ \A i \in Idx(labels) : labels[i] = 0
    ELSE \E i \in cand :
            /\ Eq(thresh, rnd[i])
            /\ \A j \in cand : ~Gt(rnd[i], rnd[j])

\* C11: an MCST call that returns has taken its samples in drawing order,
\* recorded exactly those whose p-value strictly exceeds the running best
\* (the baseline, raised to each recorded sample's p-value), and set thresh_
\* to the least recorded sample, or to 1.1 with every label 0 when none is.
C11_McstGreedyMinimum ==
    [][(self.strategy = "MCST" /\ ret'.exc = "none")
          => LET rnd == Samples(np_random, Len(ret'.scores))
             IN  MinCandidateOrDefault(self'.thresh_, ret'.labels, rnd,
                                       Candidates(ret'.scores, rnd))]_vars

C11_Witness ==
    /\ self.strategy = "MCST"
    /\ self.random_state # None
    /\ ret.exc = "none"
    /\ LET rnd  == Samples(0, Len(ret.scores))
           cand == Candidates(ret.scores, rnd)
       IN  /\ Cardinality(cand) >= 2
           /\ \E i \in Idx(rnd) : i \notin cand
           /\ MinCandidateOrDefault(self.thresh_, ret.labels, rnd, cand)
           /\ \E i \in Idx(ret.labels) : ret.labels[i] = 1


\* The last call built a histogram of at least two bins whose first and
\* last bins are non-empty, and handed it to ISODATA_thres.
IsodataCalled ==
    /\ self.strategy = "HIST"
    /\ self.method = "isodata"
    /\ ret.step \in {"threshold", "return"}
    /\ ret.bins >= 2
    /\ histogram(ret.scores, ret.bins)[1] > 0
    /\ histogram(ret.scores, ret.bins)[ret.bins] > 0

\* C12: for every histogram of at least two bins whose first and last bins
\* are non-empty, ISODATA_thres divides by no zero cumulative count and
\* finds a bin center c with 0 <= all_mean - c < bin_width, so its '[0]'
\* never fails on an empty selection and eval returns.
C12_IsodataFindsCenter ==
    IsodataCalled =>
        LET counts == histogram(ret.scores, ret.bins)
        IN  /\ \A i \in 1..(ret.bins - 1) :
                  SumTo(counts, i) > 0 /\ Sum(counts) - SumTo(counts, i) > 0
            /\ IsodataSelected(counts) # {}
            /\ ret.exc = "none"

\* The last call was HIST.eval on scores that are not all equal, and it
\* returned.
HistReturnedNonConstant ==
    /\ self.strategy = "HIST"
    /\ ret.exc = "none"
    /\ SeqMin(ret.input.data) # SeqMax(ret.input.data)

\* C13: whenever HIST.eval returns on a non-constant input, with any of the
\* six methods, thresh_ lies strictly between 0 and 1, every minimum score is
\* labelled 0 and every maximum score 1: the labels are never all inliers
\* nor all outliers.
C13_ThreshStrictlyInside ==
    HistReturnedNonConstant =>
        /\ Gt(self.thresh_, Frac(0, 1))
        /\ Lt(self.thresh_, Frac(1, 1))
        /\ \A i \in Idx(ret.labels) :
              /\ ret.input.data[i] = SeqMin(ret.input.data) => ret.labels[i] = 0
              /\ ret.input.data[i] = SeqMax(ret.input.data) => ret.labels[i] = 1
        /\ \E i, j \in Idx(ret.labels) : ret.labels[i] = 0 /\ ret.labels[j] = 1

C13_Witness ==
    /\ HistReturnedNonConstant
    /\ self.method = "triangle"
    /\ Gt(self.thresh_, Frac(0, 1))
    /\ Lt(self.thresh_, Frac(1, 1))
    /\ \E i, j, k \in Idx(ret.labels) :
          /\ ret.input.data[i] = SeqMin(ret.input.data) /\ ret.labels[i] = 0
          /\ ret.input.data[j] = SeqMax(ret.input.data) /\ ret.labels[j] = 1
          /\ Gt(ret.scores[k], Frac(0, 1)) /\ Lt(ret.scores[k], Frac(1, 1))

=============================================================================
